---------------------------- MODULE Spec2Model ----------------------------
(***************************************************************************)
(* Model of the daily-batch trading pipeline: the analyzer                 *)
(* (scripts/3_analyzer.py) that sizes shortlisted candidates and writes    *)
(* the day's signal file, and the position tracker (scripts/5_tracker.py)  *)
(* that ingests the signal file into the ledger trade_tracker.csv and      *)
(* advances every position through the exit rules.                         *)
(*                                                                         *)
(* Units.  All prices and amounts are integers counting paise (0.01        *)
(* rupee): the screener rounds every shortlist column to 2 decimals        *)
(* (2_screener.py:255) and the tracker rounds every fetched close to 2     *)
(* decimals (5_tracker.py:71).  Percentages that the code rounds to 2      *)
(* decimals (PnL_Pct, Net_Expectancy_Pct) are integers counting 0.01       *)
(* percent.  Sums, products and comparisons of such amounts are exact;     *)
(* the quotients whose last bit decides a result (the share quantity, the  *)
(* reward:risk column) are computed in float64 as Python computes them.    *)
(***************************************************************************)
EXTENDS Integers, Sequences, FiniteSets, TLC

(***************************************************************************)
(* Arithmetic helpers                                                      *)
(***************************************************************************)
Max(a, b) == IF a >= b THEN a ELSE b

Min(a, b) == IF a <= b THEN a ELSE b

\* round(n/d) to the nearest integer, ties to even (numpy / Python round), d > 0.
RoundDiv(n, d) ==
    LET q == n \div d
        r == n % d
    IN  IF 2 * r < d THEN q
        ELSE IF 2 * r > d THEN q + 1
        ELSE IF q % 2 = 0 THEN q ELSE q + 1

(***************************************************************************)
(* Float64 arithmetic.  Where a result of the Python code depends on the  *)
(* last bit of a quotient (the RR column of 2_screener.py:184-188, the    *)
(* int() of 3_analyzer.py:74 and :79) it is computed here as Python       *)
(* computes it: in IEEE-754 binary64, every operation rounded to nearest, *)
(* ties to even.  (Numbers of the sizes met here are normal: no overflow, *)
(* no subnormals.)                                                        *)
(***************************************************************************)
\* A natural number as the sequence of its digits in base 2^15, lowest first,
\* without leading zeros (the empty sequence is 0).
LimbBits == 15
Base == 2^LimbBits

RECURSIVE BigOf(_)
BigOf(n) == IF n = 0 THEN <<>> ELSE <<n % Base>> \o BigOf(n \div Base)

\* For numbers below 2^31.
RECURSIVE NatOf(_)
NatOf(b) == IF b = <<>> THEN 0 ELSE b[1] + Base * NatOf(Tail(b))

RECURSIVE Strip(_)
Strip(b) == IF b = <<>> \/ b[Len(b)] # 0 THEN b ELSE Strip(SubSeq(b, 1, Len(b) - 1))

Limb(b, i) == IF i >= 1 /\ i <= Len(b) THEN b[i] ELSE 0

\* The operations on these numbers and on the float64 numbers below, and the
\* definitions that compute with them, are the cases of one recursive
\* definition, Apply: BigAdd(a, b) is Apply("BigAdd", <<a, b>>), and so on.
RECURSIVE Apply(_, _)

BigAdd(a, b) == Apply("BigAdd", <<a, b>>)

BigSub(a, b) == Apply("BigSub", <<a, b>>)

BigCmp(a, b) == Apply("BigCmp", <<a, b>>)

MulSmall(a, k) == Apply("MulSmall", <<a, k>>)

ShiftLeft(a, k) == Apply("ShiftLeft", <<a, k>>)

ShiftRight(a, k) == Apply("ShiftRight", <<a, k>>)

BigAddImpl(a, b) ==
    LET n == (IF Len(a) > Len(b) THEN Len(a) ELSE Len(b)) + 1
        carry[i \in 0..n] ==
            IF i = 0 THEN 0 ELSE (Limb(a, i) + Limb(b, i) + carry[i - 1]) \div Base
    IN  Strip(<<>> \o [i \in 1..n |-> (Limb(a, i) + Limb(b, i) + carry[i - 1]) % Base])

\* a - b for a >= b
BigSubImpl(a, b) ==
    LET n == Len(a)
        borrow[i \in 0..n] ==
            IF i = 0 THEN 0
            ELSE IF Limb(a, i) - Limb(b, i) - borrow[i - 1] < 0 THEN 1 ELSE 0
    IN  Strip(<<>> \o [i \in 1..n |-> (Limb(a, i) - Limb(b, i) - borrow[i - 1] + Base) % Base])

\* -1, 0, 1 as a < b, a = b, a > b
BigCmpImpl(a, b) ==
    IF Len(a) # Len(b) THEN (IF Len(a) < Len(b) THEN -1 ELSE 1)
    ELSE IF a = b THEN 0
    ELSE LET top == CHOOSE i \in 1..Len(a) :
                        a[i] # b[i] /\ \A j \in (i + 1)..Len(a) : a[j] = b[j]
         IN  IF a[top] < b[top] THEN -1 ELSE 1

\* a * k for 0 <= k < Base
MulSmallImpl(a, k) ==
    LET n == Len(a) + 1
        carry[i \in 0..n] ==
            IF i = 0 THEN 0 ELSE (Limb(a, i) * k + carry[i - 1]) \div Base
    IN  Strip(<<>> \o [i \in 1..n |-> (Limb(a, i) * k + carry[i - 1]) % Base])

\* a * 2^k
ShiftLeftImpl(a, k) ==
    IF a = <<>> THEN <<>>
    ELSE (<<>> \o [i \in 1..(k \div LimbBits) |-> 0]) \o MulSmall(a, 2^(k % LimbBits))

\* floor(a / (Base^w * 2^s)) for s < LimbBits
ShiftRightBy(a, w, s) ==
    Strip(<<>> \o [i \in 1..(Len(a) - w) |->
                      (Limb(a, i + w) \div 2^s) + (Limb(a, i + w + 1) % 2^s) * 2^(LimbBits - s)])

\* floor(a / 2^k)
ShiftRightImpl(a, k) == ShiftRightBy(a, k \div LimbBits, k % LimbBits)

\* Binary digit i of a, the lowest being digit 1.
Bit(a, i) == (Limb(a, (i - 1) \div LimbBits + 1) \div 2^((i - 1) % LimbBits)) % 2

\* Number of binary digits of a.
BitLen(a) ==
    IF a = <<>> THEN 0
    ELSE LimbBits * (Len(a) - 1)
            + (CHOOSE k \in 1..LimbBits : 2^(k - 1) <= a[Len(a)] /\ a[Len(a)] < 2^k)

RECURSIVE BigMul(_, _)
BigMul(a, b) ==
    IF b = <<>> \/ a = <<>> THEN <<>>
    ELSE BigAdd(MulSmall(a, b[1]), <<0>> \o BigMul(a, Tail(b)))

\* The largest q in lo..hi with q * d <= n.
RECURSIVE QuotientDigit(_, _, _, _)
QuotientDigit(n, d, lo, hi) ==
    IF lo = hi THEN lo
    ELSE LET mid == (lo + hi + 1) \div 2
         IN  IF BigCmp(MulSmall(d, mid), n) <= 0
             THEN QuotientDigit(n, d, mid, hi)
             ELSE QuotientDigit(n, d, lo, mid - 1)

\* Quotient and remainder of n by d (d # 0), the digits of n taken from the top.
RECURSIVE BigDivMod(_, _)
BigDivMod(n, d) ==
    IF n = <<>> THEN [q |-> <<>>, r |-> <<>>]
    ELSE LET up == BigDivMod(Tail(n), d)
         IN  IF up.r = <<>> /\ n[1] = 0
             THEN [q |-> Strip(<<0>> \o up.q), r |-> <<>>]
             ELSE LET r2 == <<n[1]>> \o up.r
                      qd == QuotientDigit(r2, d, 0, Base - 1)
                  IN  [q |-> Strip(<<qd>> \o up.q), r |-> BigSub(r2, MulSmall(d, qd))]

\* A binary64 number (-1)^neg * m * 2^e with m of at most 53 bits, odd or zero.
MantissaBits == 53

Canon(neg, m, e) == Apply("Canon", <<neg, m, e>>)

FRound(neg, m, e) == Apply("FRound", <<neg, m, e>>)

FAdd(x, y) == Apply("FAdd", <<x, y>>)

FMul(x, y) == Apply("FMul", <<x, y>>)

FDiv(x, y) == Apply("FDiv", <<x, y>>)

FSub(x, y) == Apply("FSub", <<x, y>>)

FromInt(n) == Apply("FromInt", <<n>>)

\* The double of the decimal n / scale, e.g. that of "123.45".
FromDecimal(n, scale) == Apply("FromDecimal", <<n, scale>>)

FCmp(x, y) == Apply("FCmp", <<x, y>>)

\* round(x, 2), in hundredths.
Round2(x) == Apply("Round2", <<x>>)

FTrunc(x) == Apply("FTrunc", <<x>>)

FRint(x) == Apply("FRint", <<x>>)

\* m stripped of its low zero digits.
CanonImpl(neg, m, e) ==
    IF m = <<>> THEN [neg |-> FALSE, m |-> <<>>, e |-> 0]
    ELSE LET tz == (CHOOSE i \in 1..BitLen(m) :
                        Bit(m, i) = 1 /\ \A j \in 1..(i - 1) : Bit(m, j) = 0) - 1
         IN  [neg |-> neg, m |-> ShiftRight(m, tz), e |-> e + tz]

\* The binary64 nearest to (-1)^neg * m * 2^e, ties to even.
FRoundImpl(neg, m, e) ==
    IF BitLen(m) <= MantissaBits THEN Canon(neg, m, e)
    ELSE LET k == BitLen(m) - MantissaBits
             hi == ShiftRight(m, k)
             half == Bit(m, k) = 1
             rest == \E i \in 1..(k - 1) : Bit(m, i) = 1
             up == half /\ (rest \/ Bit(hi, 1) = 1)
         IN  Canon(neg, IF up THEN BigAdd(hi, <<1>>) ELSE hi, e + k)

FNeg(x) == IF x.m = <<>> THEN x ELSE [x EXCEPT !.neg = ~x.neg]

FAddImpl(x, y) ==
    LET e == IF x.e < y.e THEN x.e ELSE y.e
        mx == ShiftLeft(x.m, x.e - e)
        my == ShiftLeft(y.m, y.e - e)
    IN  IF x.m = <<>> THEN y
        ELSE IF y.m = <<>> THEN x
        ELSE IF x.neg = y.neg THEN FRound(x.neg, BigAdd(mx, my), e)
        ELSE IF BigCmp(mx, my) >= 0 THEN FRound(x.neg, BigSub(mx, my), e)
        ELSE FRound(y.neg, BigSub(my, mx), e)

FMulImpl(x, y) == FRound(x.neg # y.neg, BigMul(x.m, y.m), x.e + y.e)

\* x / y for y # 0: the quotient to 64 bits or more, with a low bit set when
\* the division leaves a remainder.
FDivImpl(x, y) ==
    LET shift == 64 + BitLen(y.m)
        dm == BigDivMod(ShiftLeft(x.m, shift), y.m)
        quot == IF dm.r = <<>> THEN ShiftLeft(dm.q, 1) ELSE BigAdd(ShiftLeft(dm.q, 1), <<1>>)
    IN  FRound(x.neg # y.neg, quot, x.e - y.e - shift - 1)

\* -1, 0, 1
FCmpImpl(x, y) ==
    LET d == FSub(x, y)
    IN  IF d.m = <<>> THEN 0 ELSE IF d.neg THEN -1 ELSE 1

\* int(x): x cut toward zero (for |x| < 2^30).
FTruncImpl(x) ==
    LET n == IF x.e >= 0 THEN NatOf(ShiftLeft(x.m, x.e)) ELSE NatOf(ShiftRight(x.m, -x.e))
    IN  IF x.neg THEN -n ELSE n

\* rint(x): the integer nearest to x, ties to even (for |x| < 2^30).
FRintImpl(x) ==
    IF x.e >= 0 THEN (IF x.neg THEN -1 ELSE 1) * NatOf(ShiftLeft(x.m, x.e))
    ELSE LET k == -x.e
             hi == ShiftRight(x.m, k)
             half == Bit(x.m, k) = 1
             rest == \E i \in 1..(k - 1) : Bit(x.m, i) = 1
             up == half /\ (rest \/ Bit(hi, 1) = 1)
             n == NatOf(hi) + (IF up THEN 1 ELSE 0)
         IN  IF x.neg THEN -n ELSE n

(***************************************************************************)
(* Account configuration (config/settings.json read by 3_analyzer.py)      *)
(***************************************************************************)
CAPITAL == 10000000          \* 100000.00 rupees, in paise

RISK_PER_TRADE_PCT == 1      \* risk_per_trade_pct

MAX_POSITION_PCT == 10       \* max_position_pct

MAX_TRADES == 2              \* max_concurrent_trades

(***************************************************************************)
(* Position sizing: calculate_position_size(entry, sl, capital), with      *)
(* entry, sl and capital in paise.  The two quotients are float64          *)
(* quotients cut by int(); the position value is returned in paise.        *)
(***************************************************************************)
RISK_PER_TRADE == FDiv(FromInt(RISK_PER_TRADE_PCT), FromInt(100))

MAX_POSITION == FDiv(FromInt(MAX_POSITION_PCT), FromInt(100))

\* The risk-sized quantity alone, without the position-value cap.
SizeNoCap(entry, sl, capital) ==
    LET Entry == FromDecimal(entry, 100)
        max_risk_amount == FMul(FromDecimal(capital, 100), RISK_PER_TRADE)
        risk_per_share == FSub(Entry, FromDecimal(sl, 100))
        qty == FTrunc(FDiv(max_risk_amount, risk_per_share))
    IN  IF risk_per_share.m = <<>> \/ risk_per_share.neg
        THEN [qty |-> 0, position |-> 0]
        ELSE [qty |-> qty, position |-> qty * entry]

calculate_position_size(entry, sl, capital) ==
    LET Entry == FromDecimal(entry, 100)
        max_risk_amount == FMul(FromDecimal(capital, 100), RISK_PER_TRADE)
        risk_per_share == FSub(Entry, FromDecimal(sl, 100))
        qty == FTrunc(FDiv(max_risk_amount, risk_per_share))
        position_value == FMul(FromInt(qty), Entry)
        max_position == FMul(FromDecimal(capital, 100), MAX_POSITION)
        qty2 == FTrunc(FDiv(max_position, Entry))
    IN  IF risk_per_share.m = <<>> \/ risk_per_share.neg
        THEN [qty |-> 0, position |-> 0]
        ELSE IF FCmp(position_value, max_position) > 0
        THEN [qty |-> qty2, position |-> Round2(FMul(FromInt(qty2), Entry))]
        ELSE [qty |-> qty, position |-> Round2(position_value)]

(***************************************************************************)
(* Broker charges: calculate_charges(position_value), in paise.            *)
(*   buy  = 1.18*(brokerage + exchange) + stamp + sebi                     *)
(*   sell = 1.18*(brokerage + exchange) + stt + 18.5*1.18                  *)
(* with brokerage = min(0.0005*pv, 20), exchange = 0.0000297*pv,           *)
(* stamp = 0.00015*pv, sebi = 0.000001*pv, stt = 0.001*pv.                 *)
(* Amounts are held as [whole paise, nano-paise remainder] so that the     *)
(* products stay inside 32-bit integers for position values up to          *)
(* 10000.00 rupees (NANO = 10^9 nano-paise per paise).                     *)
(***************************************************************************)
NANO == 1000000000

\* k * p / 10^9 paise as [whole, nano], for 0 <= p <= 10^6 paise.
MulNano(k, p) ==
    LET micro == (k \div 1000) * p
        nanoL == (k % 1000) * p
        nano == (micro % 1000000) * 1000 + nanoL
    IN  [whole |-> micro \div 1000000 + nano \div NANO, nano |-> nano % NANO]

\* Both sides' brokerage with its GST: 2 * 1.18 * min(0.0005*pv, 20 rupees).
BrokerageBothSides(p) ==
    IF p <= 4000000 THEN MulNano(1180000, p)
    ELSE [whole |-> 4720, nano |-> 0]

\* 2*1.18*0.0000297 + 0.00015 + 0.000001 + 0.001 = 0.001221092 of pv.
ProportionalCharges(p) == MulNano(1221092, p)

\* dp = 18.5 * 1.18 = 21.83 rupees
DP_CHARGE == 2183

calculate_charges(position_value) ==
    LET b == BrokerageBothSides(position_value)
        v == ProportionalCharges(position_value)
        nano == b.nano + v.nano
        whole == b.whole + v.whole + DP_CHARGE + nano \div NANO
    IN  whole + RoundDiv(nano % NANO, NANO)

(***************************************************************************)
(* Input data: the shortlist rows, snapshot rows and sizing arguments the  *)
(* runs below are made on.                                                 *)
(***************************************************************************)
\* A shortlist row as layer3_filter derives it from Close and Support
\* (2_screener.py:184-193): Target = Entry + 2*(Entry - SL), RR = 2.00.
ShortlistRow(sym, entry, sl, atr, mode) ==
    [Symbol |-> sym, Entry |-> entry, SL |-> sl,
     Target |-> entry + 2 * (entry - sl), RR |-> 200,
     Risk_Pct |-> RoundDiv(10000 * (entry - sl), entry),
     ATR |-> atr, Mode |-> mode]

ShortlistRows ==
    { ShortlistRow("AAA", 10000, 9500, 400, "standard"),
      ShortlistRow("BBB", 10000, 9500, 800, "testing"),
      ShortlistRow("CCC", 10000, 9900, 400, "standard") }

\* Shortlist rows as layer3_filter derives them; DDD has a lower net
\* expectancy than AAA, EEE the same as AAA at another price, FFF a risk of
\* 11 % (testing mode only) that the position cap does not bind, NEG a stop
\* above its entry price (Support above Close), GGG (Close 66.87, Support
\* 59.17) a risk of 8.00 that divides the risk budget evenly, and HHH (Close
\* 110.15, Support 109.34) a target equal to its minimum target.
AnalyzerRows ==
    ShortlistRows \cup
    { ShortlistRow("DDD", 10000, 9700, 400, "standard"),
      ShortlistRow("EEE", 20000, 19000, 800, "standard"),
      ShortlistRow("FFF", 10000, 8900, 400, "testing"),
      ShortlistRow("NEG", 10000, 10945, 400, "standard"),
      [ShortlistRow("GGG", 6687, 5887, 267, "testing") EXCEPT !.Target = 8286],
      [ShortlistRow("HHH", 11015, 10879, 440, "standard") EXCEPT !.Target = 11286] }

\* Arguments of a calculate_position_size call on its own.
SizingEntries == {5000, 10000, 12345, 20000}

SizingStopPcts == {-1, 0, 1, 2, 5, 10, 50}   \* entry - sl as a percent of entry

SizingCapitals == {1000000, 10000000, 20000000}

(***************************************************************************)
(* The day's snapshot file data/raw_data_<today>.csv.  Snap is a row that  *)
(* passes every layer of every mode when its arguments are those of        *)
(* "AAA"; each other row differs from it in the column of one filter.      *)
(***************************************************************************)
Snap(sym, close, rsi, vol20, high20, support) ==
    [Symbol |-> sym, Close |-> close,
     MA20 |-> (close * 98) \div 100, MA50 |-> (close * 95) \div 100,
     MA200 |-> (close * 90) \div 100,
     RSI |-> rsi, ADX |-> 3000, ATR |-> (close * 4) \div 100,
     Vol_20D_Avg |-> vol20, Vol_5D_Avg |-> (vol20 * 3) \div 2,
     High_20D |-> high20, Support |-> support]

SnapshotRows ==
    { Snap("AAA", 10000, 6000, 1000000, 9900, 9600),     \* passes everywhere
      Snap("THIN", 10000, 6000, 50000, 9900, 9600),      \* volume below every minimum
      Snap("DEAR", 1100000, 6000, 1000000, 1090000, 1056000),  \* price above every band
      Snap("SOFT", 10000, 4200, 1000000, 9900, 9600),    \* RSI inside the testing band only
      Snap("FLAT", 10000, 6000, 1000000, 10000, 9600),   \* Close = High_20D
      Snap("WIDE", 10000, 6000, 1000000, 9900, 9000),    \* risk 10.45 %
      Snap("ODD", 12345, 6000, 1000000, 12000, 11931),   \* SL and Target need rounding
      Snap("ZERO", 19900, 6000, 1000000, 19000, 20000),  \* SL = Close
      Snap("NEG", 10000, 6000, 1000000, 9900, 11000) }   \* SL above Close

\* SL = Support * 0.995 as the shortlist file holds it, rounded to 2 decimals.
ShortlistStop(support) == RoundDiv(199 * support, 200)

\* Target = Entry + 2 * (Entry - SL) as the shortlist file holds it.
ShortlistTarget(close, support) == RoundDiv(600 * close - 398 * support, 200)

\* calculate_position_size is a function of its arguments: its values on the
\* arguments above, computed once.
SizingCalls ==
    { <<r.Entry, r.SL, CAPITAL>> : r \in AnalyzerRows }
    \cup { <<r.Close, ShortlistStop(r.Support), CAPITAL>> : r \in SnapshotRows }
    \cup { <<e, e - (e * pct) \div 100, c>> :
              e \in SizingEntries, pct \in SizingStopPcts, c \in SizingCapitals }

PositionSizes == [a \in SizingCalls |-> Apply("calculate_position_size", a)]

PositionSize(entry, sl, capital) == PositionSizes[<<entry, sl, capital>>]

(***************************************************************************)
(* generate_signals(df): one shortlist row to a signal, or to NoSignal     *)
(* when the row is skipped.                                                *)
(*   min_target = Entry * (1 + charges/position + 0.02)                    *)
(*              = (51*position + 50*charges) / (50*qty)                    *)
(* because position = qty * Entry.                                         *)
(***************************************************************************)
NoSignal == [Stock |-> "none"]

\* Variant that compares the target with the entry price alone.
TargetBelowEntry(row, qty, position, charges) == row.Target < row.Entry

\* Variant without the 2 % margin: the target against the price that pays the
\* charges.
TargetBelowCharges(row, qty, position, charges) ==
    qty * row.Target < position + charges

\* Lines 116-121 in float64, as the code compares: charges is the rounded
\* amount calculate_charges returned, position the product qty * Entry.
BelowMinTarget(entry, target, qty, charges) ==
    LET Entry == FromDecimal(entry, 100)
        position == FMul(FromInt(qty), Entry)
        breakeven_pct == FMul(FDiv(FromDecimal(charges, 100), position), FromInt(100))
        min_target == FMul(Entry, FAdd(FAdd(FromInt(1), FDiv(breakeven_pct, FromInt(100))),
                                       FromDecimal(2, 100)))
    IN  FCmp(FromDecimal(target, 100), min_target) < 0

\* 2_screener.py:184-188 for Close and Support in paise: the RR column, NaN when
\* Risk_Per_Share is 0.0 (the division 0.0 / 0.0).
FloatRR(close, support) ==
    LET Entry == FromDecimal(close, 100)
        SL == FMul(FromDecimal(support, 100), FromDecimal(995, 1000))
        Risk_Per_Share == FSub(Entry, SL)
        Target == FAdd(Entry, FMul(FromInt(2), Risk_Per_Share))
    IN  IF Risk_Per_Share.m = <<>>
        THEN [nan |-> TRUE, x |-> FromInt(0)]
        ELSE [nan |-> FALSE, x |-> FDiv(FSub(Target, Entry), Risk_Per_Share)]

\* 2_screener.py:190, df["RR"] >= min_rr with min_rr in hundredths: a
\* comparison with NaN is false.
RRAtLeast(rr, min_rr) == ~rr.nan /\ FCmp(rr.x, FromDecimal(min_rr, 100)) >= 0

\* The comparison on the rows above, computed once.
TargetCalls ==
    { <<r.Entry, r.SL, r.Target>> : r \in AnalyzerRows }
    \cup { <<r.Close, ShortlistStop(r.Support), ShortlistTarget(r.Close, r.Support)>> :
              r \in SnapshotRows }

TargetsTooLow ==
    [a \in TargetCalls |->
        LET sized == PositionSize(a[1], a[2], CAPITAL)
        IN  sized.qty > 0
            /\ Apply("BelowMinTarget",
                       <<a[1], a[3], sized.qty, calculate_charges(sized.position)>>)]

TargetTooLow(row, qty, position, charges) ==
    TargetsTooLow[<<row.Entry, row.SL, row.Target>>]

SignalOf(row, day) ==
    LET sized == PositionSize(row.Entry, row.SL, CAPITAL)
        qty == sized.qty
        position == sized.position
        charges == calculate_charges(position)
        net_profit == (row.Target - row.Entry) * qty - charges
    IN  IF qty = 0 THEN NoSignal
        ELSE IF TargetTooLow(row, qty, position, charges) THEN NoSignal
        ELSE [Date |-> day,
              Stock |-> row.Symbol,
              Entry |-> row.Entry,
              SL |-> row.SL,
              T1 |-> row.Target,
              T2 |-> RoundDiv(2 * row.Target + 3 * row.ATR, 2),
              RR |-> row.RR,
              Quantity |-> qty,
              Position |-> position,
              Charges |-> charges,
              Breakeven |-> RoundDiv(51 * position + 50 * charges, 50 * qty),
              Net_Expectancy_Pct |-> RoundDiv(10000 * net_profit, position),
              ATR |-> row.ATR,
              Mode |-> row.Mode]

Apply(op, a) ==
    CASE op = "MulSmall" -> MulSmallImpl(a[1], a[2])
      [] op = "BigAdd" -> BigAddImpl(a[1], a[2])
      [] op = "BigSub" -> BigSubImpl(a[1], a[2])
      [] op = "BigCmp" -> BigCmpImpl(a[1], a[2])
      [] op = "ShiftLeft" -> ShiftLeftImpl(a[1], a[2])
      [] op = "ShiftRight" -> ShiftRightImpl(a[1], a[2])
      [] op = "Canon" -> CanonImpl(a[1], a[2], a[3])
      [] op = "FRound" -> FRoundImpl(a[1], a[2], a[3])
      [] op = "FAdd" -> FAddImpl(a[1], a[2])
      [] op = "FMul" -> FMulImpl(a[1], a[2])
      [] op = "FDiv" -> FDivImpl(a[1], a[2])
      [] op = "FSub" -> FAdd(a[1], FNeg(a[2]))
      [] op = "FromInt" -> Canon(a[1] < 0, BigOf(IF a[1] < 0 THEN -a[1] ELSE a[1]), 0)
      [] op = "FromDecimal" -> FDiv(FromInt(a[1]), FromInt(a[2]))
      [] op = "FCmp" -> FCmpImpl(a[1], a[2])
      [] op = "Round2" -> FRint(FMul(a[1], FromInt(100)))
      [] op = "FTrunc" -> FTruncImpl(a[1])
      [] op = "FRint" -> FRintImpl(a[1])
      [] op = "calculate_position_size" -> calculate_position_size(a[1], a[2], a[3])
      [] op = "BelowMinTarget" -> BelowMinTarget(a[1], a[2], a[3], a[4])
      [] op = "FloatRR" -> FloatRR(a[1], a[2])
      [] op = "RRAtLeast" -> RRAtLeast(a[1], a[2])
      [] op = "SignalOf" -> SignalOf(a[1], a[2])

RECURSIVE generate_signals(_, _)
generate_signals(df, day) ==
    IF df = <<>> THEN <<>>
    ELSE LET s == Apply("SignalOf", <<Head(df), day>>)
         IN  (IF s = NoSignal THEN <<>> ELSE <<s>>) \o generate_signals(Tail(df), day)

(***************************************************************************)
(* select_top_trades(signals, max_trades): pass through when within        *)
(* capacity, else the first max_trades rows of a stable sort by            *)
(* RR descending, then Net_Expectancy_Pct descending.                      *)
(***************************************************************************)
\* Variant that breaks RR ties by the lower net expectancy.
RanksBeforeLowExpectancy(a, b) ==
    \/ a.RR > b.RR
    \/ a.RR = b.RR /\ a.Net_Expectancy_Pct < b.Net_Expectancy_Pct

RanksBefore(a, b) ==
    \/ a.RR > b.RR
    \/ a.RR = b.RR /\ a.Net_Expectancy_Pct > b.Net_Expectancy_Pct

\* Index of the first row that no other row ranks before.
TopIndex(signals) ==
    CHOOSE i \in 1..Len(signals) :
        /\ \A j \in 1..Len(signals) : ~RanksBefore(signals[j], signals[i])
        /\ \A j \in 1..(i - 1) : RanksBefore(signals[j], signals[i])
                                  \/ RanksBefore(signals[i], signals[j])

RemoveAt(s, i) == SubSeq(s, 1, i - 1) \o SubSeq(s, i + 1, Len(s))

RECURSIVE SortedSignals(_)
SortedSignals(signals) ==
    IF signals = <<>> THEN <<>>
    ELSE LET i == TopIndex(signals)
         IN  <<signals[i]>> \o SortedSignals(RemoveAt(signals, i))

\* Variant without the head(max_trades).
SelectWithoutLimit(signals, max_trades) == signals

select_top_trades(signals, max_trades) ==
    IF Len(signals) <= max_trades THEN signals
    ELSE SubSeq(SortedSignals(signals), 1, max_trades)

(***************************************************************************)
(* Position tracker (5_tracker.py).  A ledger is a sequence of position    *)
(* rows; the row index is the DataFrame index (load_tracker gives a        *)
(* RangeIndex and add_new_trades concatenates with ignore_index).  The     *)
(* Notes column, always empty, is left out.                                *)
(***************************************************************************)
load_tracker(file) == IF file.exists THEN file.rows ELSE <<>>

ActiveIdx(df) == {i \in 1..Len(df) : df[i].Status = "ACTIVE"}

\* Variant that starts the position at its stop price.
NewTradeAtStop(sig, day) ==
    [Date |-> day, Stock |-> sig.Stock, Entry |-> sig.Entry, SL |-> sig.SL, T1 |-> sig.T1,
     T2 |-> sig.T2, Quantity |-> sig.Quantity, Position |-> sig.Position,
     Current |-> sig.SL, PnL_Rs |-> 0, PnL_Pct |-> 0, Days_Held |-> 0,
     Status |-> "ACTIVE", ATR |-> sig.ATR, T1_Hit |-> FALSE]

NewTrade(sig, day) ==
    [Date |-> day,
     Stock |-> sig.Stock,
     Entry |-> sig.Entry,
     SL |-> sig.SL,
     T1 |-> sig.T1,
     T2 |-> sig.T2,
     Quantity |-> sig.Quantity,
     Position |-> sig.Position,
     Current |-> sig.Entry,
     PnL_Rs |-> 0,
     PnL_Pct |-> 0,
     Days_Held |-> 0,
     Status |-> "ACTIVE",
     ATR |-> sig.ATR,
     T1_Hit |-> FALSE]

\* Every row of today's signal file is appended; a missing file adds nothing.
add_new_trades(df, file, day) ==
    IF file.exists
    THEN df \o [k \in 1..Len(file.rows) |-> NewTrade(file.rows[k], day)]
    ELSE df

\* Variant in which the first failed lookup ends the loop: the rows after it
\* are not refreshed.
UpdatePricesAbortOnFailure(df, quote) ==
    [i \in 1..Len(df) |->
        IF /\ i \in ActiveIdx(df)
           /\ quote[i].kind = "ok"
           /\ \A j \in ActiveIdx(df) : j < i => quote[j].kind = "ok"
        THEN [df[i] EXCEPT !.Current = quote[i].close]
        ELSE df[i]]

\* quote[i] is the outcome of yf.Ticker(symbol).history for active row i:
\* kind "ok" with the close, or "failed" (an empty history or an exception:
\* either way the row is left as it is, lines 70 and 72-73).
update_current_prices(df, quote) ==
    [i \in 1..Len(df) |->
        IF i \in ActiveIdx(df) /\ quote[i].kind = "ok"
        THEN [df[i] EXCEPT !.Current = quote[i].close]
        ELSE df[i]]

\* P&L of every row (ACTIVE or CLOSED); PnL_Pct in 0.01 percent.
calculate_pnl(df) ==
    [i \in 1..Len(df) |->
        [df[i] EXCEPT
            !.PnL_Rs = (df[i].Current - df[i].Entry) * df[i].Quantity,
            !.PnL_Pct = RoundDiv(10000 * (df[i].Current - df[i].Entry), df[i].Entry)]]

\* Variant that recomputes Days_Held of every row, CLOSED ones too.
UpdateDaysHeldAllRows(df, day) ==
    [i \in 1..Len(df) |-> [df[i] EXCEPT !.Days_Held = day - df[i].Date]]

update_days_held(df, day) ==
    [i \in 1..Len(df) |->
        IF i \in ActiveIdx(df)
        THEN [df[i] EXCEPT !.Days_Held = day - df[i].Date]
        ELSE df[i]]

(***************************************************************************)
(* check_triggers, one loop iteration: the rules applied to ACTIVE row     *)
(* `row` (the snapshot df.loc[idx]); gives the row as left in the frame    *)
(* and the rules appended to the action list, in order.                    *)
(***************************************************************************)
BREAKEVEN_PCT == 300     \* PnL_Pct >= 3

MONTH_END_DAYS == 25     \* Days_Held >= 25

\* Variant with a strict comparison.
StopHitStrict(row) == row.Current < row.SL

StopHit(row) == row.Current <= row.SL

\* Variant that trails by one ATR.
TrailSLOneATR(row) == row.Current - row.ATR

\* Variant that trails at the price itself.
TrailSLAtPrice(row) == row.Current

\* round(Current - 1.5 * ATR, 2)
TrailSL(row) == RoundDiv(2 * row.Current - 3 * row.ATR, 2)

\* Variant that ignores the T1_Hit flag.
T1FiresIgnoringFlag(row) == row.Current >= row.T1

T1Fires(row) == row.Current >= row.T1 /\ ~row.T1_Hit

\* Variant without the ratchet.
T1StopLossNoRatchet(sl, trail_sl) == trail_sl

\* df.at[idx, 'SL'] = max(df.at[idx, 'SL'], trail_sl)
T1StopLoss(sl, trail_sl) == Max(sl, trail_sl)

\* Variant that also fires when the stop is at the entry price.
BreakevenFiresAtEntry(row) == row.PnL_Pct >= BREAKEVEN_PCT /\ row.SL <= row.Entry

\* Variant that does not look at the stop-loss.
BreakevenIgnoringStop(row) == row.PnL_Pct >= BREAKEVEN_PCT

\* row['PnL_Pct'] >= 3 and row['SL'] < row['Entry']
BreakevenFires(row) == row.PnL_Pct >= BREAKEVEN_PCT /\ row.SL < row.Entry

\* Variant with a strict comparison.
MonthEndFiresStrict(row) == row.Days_Held > MONTH_END_DAYS

\* row['Days_Held'] >= 25
MonthEndFires(row) == row.Days_Held >= MONTH_END_DAYS

TriggerRow(row) ==
    LET be == BreakevenFires(row)
        sl1 == IF be THEN row.Entry ELSE row.SL
        t1 == T1Fires(row)
        sl2 == IF t1 THEN T1StopLoss(sl1, TrailSL(row)) ELSE sl1
        me == MonthEndFires(row)
    IN  IF StopHit(row)
        THEN [row |-> [row EXCEPT !.Status = "CLOSED"], rules |-> <<"SL_HIT">>]
        ELSE [row |-> [row EXCEPT !.SL = sl2, !.T1_Hit = row.T1_Hit \/ t1],
              rules |-> (IF be THEN <<"BREAKEVEN">> ELSE <<>>)
                        \o (IF t1 THEN <<"T1_HIT">> ELSE <<>>)
                        \o (IF me THEN <<"MONTH_END">> ELSE <<>>)]

\* Variant that visits every row, CLOSED ones too.
TriggerIdxAllRows(df) == 1..Len(df)

\* The rows the loop of check_triggers visits.
TriggerIdx(df) == ActiveIdx(df)

\* The action records of rows 1..n, in loop order.  Idx (the row index)
\* identifies the position; the code's record carries Stock, Rule, Message.
RECURSIVE ActionsUpTo(_, _)
ActionsUpTo(df, n) ==
    IF n = 0 THEN <<>>
    ELSE LET rules == IF n \in TriggerIdx(df) THEN TriggerRow(df[n]).rules ELSE <<>>
         IN  ActionsUpTo(df, n - 1)
             \o [k \in 1..Len(rules) |-> [Idx |-> n, Stock |-> df[n].Stock, Rule |-> rules[k]]]

check_triggers(df) ==
    [actions |-> ActionsUpTo(df, Len(df)),
     df |-> [i \in 1..Len(df) |->
                IF i \in TriggerIdx(df) THEN TriggerRow(df[i]).row ELSE df[i]]]

(***************************************************************************)
(* Bounds of the model and the inputs it enumerates                        *)
(***************************************************************************)
MaxRows == 2          \* the tracker is not started once the ledger would exceed this

MaxRuns == 2          \* tracker runs explored

MaxAdvance == 1       \* calendar advances explored

MaxShortlist == 1     \* rows in a day's shortlist

LongGap == 25         \* a calendar advance long enough for the holding-period rule

\* The shortlist files the analyzer may find: no file (the empty frame), or
\* up to MaxShortlist rows of distinct symbols, all tagged with the one mode
\* of the screener run that wrote the file (2_screener.py:256).
ShortlistInputs ==
    { df \in UNION { [1..n -> ShortlistRows] : n \in 0..MaxShortlist } :
        \A i, j \in 1..Len(df) :
            i # j => (df[i].Symbol # df[j].Symbol /\ df[i].Mode = df[j].Mode) }

\* Closing prices the price source may report.
Prices == {9500, 9900, 10300, 11000}

QuoteOutcomes ==
    { [kind |-> "ok", close |-> p] : p \in Prices }
    \cup { [kind |-> "failed", close |-> 0] }

(***************************************************************************)
(* State                                                                   *)
(***************************************************************************)
VARIABLES
    today,         \* calendar day (datetime.now().date()), as a day number
    dayCount,      \* calendar advances so far
    runs,          \* tracker runs started so far
    signalFile,    \* output/daily_signals_<today>.csv
    trackerFile,   \* output/trade_tracker.csv
    tradeHistory,  \* output/trade_history.csv, the closed-trade ledger the reporter reads
    committed,     \* history: the rows of the last completed save of trade_tracker.csv
    pc,            \* the tracker run's next statement in main(), "idle" when not running
    tracker,       \* main()'s DataFrame `tracker`
    actions,       \* the action list returned by check_triggers in this run
    quotes,        \* history: the price source's answers in this run, by row index
    evaluated,     \* history: the rows visited by check_triggers in this run
    t1Emitted,     \* history: T1_HIT actions emitted so far, by row index
    closedCount,   \* history: positions closed by check_triggers so far
    sizing,        \* a calculate_position_size call: its arguments and result
    analysis,      \* a run of 3_analyzer.py main(): its shortlist and what it produced
    screening      \* a run of 2_screener.py main(): its snapshot and the frame after each layer

vars == <<today, dayCount, runs, signalFile, trackerFile, tradeHistory, committed, pc,
          tracker, actions, quotes, evaluated, t1Emitted, closedCount, sizing, analysis, screening>>

pipelineVars == <<today, dayCount, runs, signalFile, trackerFile, tradeHistory, committed,
                  pc, tracker, actions, quotes, evaluated, t1Emitted, closedCount>>

NoFile == [exists |-> FALSE, rows |-> <<>>]

NoSizing == [entry |-> 0, sl |-> 0, capital |-> 0, done |-> FALSE, qty |-> 0, position |-> 0]

PipelineInit ==
    /\ today = 0
    /\ dayCount = 0
    /\ runs = 0
    /\ signalFile = NoFile
    /\ trackerFile = NoFile
    /\ tradeHistory = NoFile
    /\ committed = <<>>
    /\ pc = "idle"
    /\ tracker = <<>>
    /\ actions = <<>>
    /\ quotes = <<>>
    /\ evaluated = {}
    /\ t1Emitted = <<>>
    /\ closedCount = 0

NoAnalysis == [df |-> <<>>, done |-> FALSE, available |-> 0, signals |-> <<>>,
               final |-> <<>>, wrote |-> FALSE]

NoScreening == [mode |-> "standard", stage |-> "none", input |-> <<>>, l1 |-> <<>>,
                l2 |-> <<>>, l3 |-> <<>>, shortlist |-> <<>>, wrote |-> FALSE]

Init == PipelineInit /\ sizing = NoSizing /\ analysis = NoAnalysis /\ screening = NoScreening

(***************************************************************************)
(* The calendar: a new day has no signal file of its own yet.              *)
(***************************************************************************)
NextDay ==
    /\ pc = "idle"
    /\ dayCount < MaxAdvance
    /\ \E d \in {LongGap} : today' = today + d
    /\ dayCount' = dayCount + 1
    /\ signalFile' = NoFile
    /\ UNCHANGED <<runs, trackerFile, tradeHistory, committed, pc, tracker, actions,
                   quotes, evaluated, t1Emitted, closedCount, sizing, analysis, screening>>

(***************************************************************************)
(* 3_analyzer.py main()                                                    *)
(***************************************************************************)
check_existing_positions(file) == Cardinality(ActiveIdx(load_tracker(file)))

\* The file main() writes for shortlist df, or the file left as it is when
\* main() returns early.
AnalyzerOutput(df, file, old, day) ==
    LET available == MAX_TRADES - check_existing_positions(file)
        signals == generate_signals(df, day)
    IN  IF df = <<>> THEN old
        ELSE IF available <= 0 THEN old
        ELSE IF signals = <<>> THEN old
        ELSE [exists |-> TRUE, rows |-> select_top_trades(signals, available)]

AnalyzerMain ==
    /\ pc = "idle"
    /\ \E df \in ShortlistInputs :
          signalFile' = AnalyzerOutput(df, trackerFile, signalFile, today)
    /\ UNCHANGED <<today, dayCount, runs, trackerFile, tradeHistory, committed, pc,
                   tracker, actions, quotes, evaluated, t1Emitted, closedCount, sizing, analysis, screening>>

(***************************************************************************)
(* 5_tracker.py main(): one run of the tracker (one tick), in the order    *)
(* of lines 208-216: load and ingest, refresh, check triggers, save.       *)
(***************************************************************************)
\* Variant that checks the triggers before the refresh.
MainOrderRulesFirst == <<"start", "triggers", "refresh", "save">>

MainOrder == <<"start", "refresh", "triggers", "save">>

\* The step that follows `label` in main(); "idle" after the last one.
After(label) ==
    LET k == CHOOSE i \in 1..Len(MainOrder) : MainOrder[i] = label
    IN  IF k = Len(MainOrder) THEN "idle" ELSE MainOrder[k + 1]

SignalCount == IF signalFile.exists THEN Len(signalFile.rows) ELSE 0

\* tracker = load_tracker(); tracker = add_new_trades(tracker), for at most
\* maxRuns runs and a ledger of at most maxRows rows.
StartRun(maxRuns, maxRows) ==
    /\ pc = "idle"
    /\ runs < maxRuns
    /\ Len(trackerFile.rows) + SignalCount <= maxRows
    /\ runs' = runs + 1
    /\ tracker' = add_new_trades(load_tracker(trackerFile), signalFile, today)
    /\ pc' = After("start")
    /\ UNCHANGED <<today, dayCount, signalFile, trackerFile, tradeHistory, committed,
                   actions, quotes, evaluated, t1Emitted, closedCount, sizing, analysis, screening>>

TrackerStart == StartRun(MaxRuns, MaxRows)

\* One close per symbol and run: rows of one symbol that get a bar get the same bar.
ConsistentQuotes(df, q) ==
    \A i, j \in DOMAIN q :
        (df[i].Stock = df[j].Stock /\ q[i].kind = "ok" /\ q[j].kind = "ok")
            => q[i].close = q[j].close

\* Lines 210-212 of main().
RefreshFrame(df, q, day) ==
    update_days_held(calculate_pnl(update_current_prices(df, q)), day)

\* tracker = update_current_prices(tracker); calculate_pnl; update_days_held
TrackerRefresh ==
    /\ pc = "refresh"
    /\ \E q \in [ActiveIdx(tracker) -> QuoteOutcomes] :
          /\ ConsistentQuotes(tracker, q)
          /\ quotes' = q
          /\ tracker' = RefreshFrame(tracker, q, today)
    /\ pc' = After("refresh")
    /\ UNCHANGED <<today, dayCount, runs, signalFile, trackerFile, tradeHistory,
                   committed, actions, evaluated, t1Emitted, closedCount, sizing, analysis, screening>>

EmittedCap == 2       \* the history counter t1Emitted stops counting here

CountRule(acts, idx, rule) ==
    Cardinality({k \in 1..Len(acts) : acts[k].Idx = idx /\ acts[k].Rule = rule})

\* actions, tracker = check_triggers(tracker)
TrackerTriggers ==
    /\ pc = "triggers"
    /\ LET r == check_triggers(tracker)
       IN  /\ tracker' = r.df
           /\ actions' = r.actions
           /\ evaluated' = TriggerIdx(tracker)
           /\ t1Emitted' =
                [i \in 1..Len(tracker) |->
                    Min(EmittedCap,
                        (IF i <= Len(t1Emitted) THEN t1Emitted[i] ELSE 0)
                            + CountRule(r.actions, i, "T1_HIT"))]
           /\ closedCount' =
                closedCount + Cardinality({k \in 1..Len(r.actions) : r.actions[k].Rule = "SL_HIT"})
    /\ pc' = After("triggers")
    /\ UNCHANGED <<today, dayCount, runs, signalFile, trackerFile, tradeHistory,
                   committed, quotes, sizing, analysis, screening>>

\* tracker.to_csv(trade_tracker.csv) run to completion, and the process ends.
TrackerSave ==
    /\ pc = "save"
    /\ trackerFile' = [exists |-> TRUE, rows |-> tracker]
    /\ committed' = tracker
    /\ pc' = After("save")
    /\ tracker' = <<>>
    /\ actions' = <<>>
    /\ quotes' = <<>>
    /\ evaluated' = {}
    /\ UNCHANGED <<today, dayCount, runs, signalFile, tradeHistory, t1Emitted, closedCount, sizing, analysis, screening>>

Next ==
    \/ NextDay
    \/ AnalyzerMain
    \/ TrackerStart
    \/ TrackerRefresh
    \/ TrackerTriggers
    \/ TrackerSave

Spec == Init /\ [][Next]_vars

(***************************************************************************)
(* The save of line 216 in its file operations, and a crash of the         *)
(* tracker process.  to_csv opens trade_tracker.csv for writing, which     *)
(* truncates it, then writes the rows in place; there is no temporary      *)
(* file and no rename.  A crash ends the run and keeps the file as it is.  *)
(***************************************************************************)
SaveTruncate ==
    /\ pc = "save"
    /\ trackerFile' = [exists |-> TRUE, rows |-> <<>>]
    /\ committed' = IF tracker = <<>> THEN <<>> ELSE committed
    /\ pc' = "writing"
    /\ UNCHANGED <<today, dayCount, runs, signalFile, tradeHistory, tracker, actions,
                   quotes, evaluated, t1Emitted, closedCount, sizing, analysis, screening>>

SaveWriteRow ==
    /\ pc = "writing"
    /\ Len(trackerFile.rows) < Len(tracker)
    /\ LET rows == Append(trackerFile.rows, tracker[Len(trackerFile.rows) + 1])
       IN  /\ trackerFile' = [exists |-> TRUE, rows |-> rows]
           /\ committed' = IF rows = tracker THEN tracker ELSE committed
    /\ UNCHANGED <<today, dayCount, runs, signalFile, tradeHistory, pc, tracker, actions,
                   quotes, evaluated, t1Emitted, closedCount, sizing, analysis, screening>>

SaveClose ==
    /\ pc = "writing"
    /\ Len(trackerFile.rows) = Len(tracker)
    /\ pc' = "idle"
    /\ tracker' = <<>>
    /\ actions' = <<>>
    /\ quotes' = <<>>
    /\ evaluated' = {}
    /\ UNCHANGED <<today, dayCount, runs, signalFile, trackerFile, tradeHistory,
                   committed, t1Emitted, closedCount, sizing, analysis, screening>>

Crash ==
    /\ pc # "idle"
    /\ pc' = "idle"
    /\ tracker' = <<>>
    /\ actions' = <<>>
    /\ quotes' = <<>>
    /\ evaluated' = {}
    /\ UNCHANGED <<today, dayCount, runs, signalFile, trackerFile, tradeHistory,
                   committed, t1Emitted, closedCount, sizing, analysis, screening>>

NextCrash ==
    \/ NextDay
    \/ AnalyzerMain
    \/ TrackerStart
    \/ TrackerRefresh
    \/ TrackerTriggers
    \/ SaveTruncate
    \/ SaveWriteRow
    \/ SaveClose
    \/ Crash

SpecCrash == Init /\ [][NextCrash]_vars


(***************************************************************************)
(* Properties of the tracker                                               *)
(***************************************************************************)
FileRows == trackerFile.rows

\* The rules emitted for row i in an action list, in order.
RulesFor(acts, i) ==
    LET idxs == {k \in 1..Len(acts) : acts[k].Idx = i}
    IN  {acts[k].Rule : k \in idxs}

NoDuplicateActive(df) ==
    \A i, j \in ActiveIdx(df) :
        i # j => ~(df[i].Date = df[j].Date /\ df[i].Stock = df[j].Stock)

\* C1: ingesting the same day's signal batch again adds nothing: the ledger never
\* holds two ACTIVE positions of one symbol from one day's batch, neither in the
\* frame after add_new_trades nor in the saved file.
C1_IngestionIdempotent ==
    NoDuplicateActive(tracker) /\ NoDuplicateActive(FileRows)

\* C2: Status only ever goes from ACTIVE to CLOSED: a row that is CLOSED in the
\* saved ledger is CLOSED in every later saved ledger, and within a run a CLOSED
\* row is not visited by check_triggers, gets no action and is left as it is.
C2_ClosedIsTerminal ==
    [][ /\ \A i \in 1..Len(FileRows) :
              /\ i <= Len(trackerFile'.rows)
              /\ FileRows[i].Status = "CLOSED" => trackerFile'.rows[i].Status = "CLOSED"
        /\ pc \in {"refresh", "triggers"} =>
              \A i \in 1..Len(tracker) :
                  tracker[i].Status = "CLOSED" => tracker'[i].Status = "CLOSED"
        /\ pc = "triggers" =>
              \A i \in 1..Len(tracker) :
                  tracker[i].Status = "CLOSED" =>
                      /\ i \notin evaluated'
                      /\ RulesFor(actions', i) = {}
                      /\ tracker'[i] = tracker[i]
      ]_vars

\* A run has passed over a position closed by an earlier run while it evaluated
\* another position; the closed one still has its price at or below its stop.
C2_Witness ==
    /\ pc = "save"
    /\ \E i \in 1..Len(FileRows) :
          /\ FileRows[i].Status = "CLOSED"
          /\ tracker[i].Status = "CLOSED"
          /\ tracker[i].Current <= tracker[i].SL
          /\ i \notin evaluated
    /\ evaluated # {}

\* C3: the stop-loss of a position never decreases from one saved ledger to the
\* next, nor within check_triggers; in particular not after BREAKEVEN or T1_HIT
\* has fired for it.
C3_StopNeverLoosens ==
    [][ /\ \A i \in 1..Len(FileRows) :
              /\ i <= Len(trackerFile'.rows)
              /\ trackerFile'.rows[i].SL >= FileRows[i].SL
        /\ pc = "triggers" =>
              \A i \in 1..Len(tracker) : tracker'[i].SL >= tracker[i].SL
      ]_vars

\* A later run has evaluated a position whose stop had been raised to the entry
\* price by an earlier run, at a price that fires T1_HIT with a trailing stop
\* below the stop in effect; the stop is kept.
C3_Witness ==
    /\ pc = "save"
    /\ \E i \in 1..Len(FileRows) :
          /\ FileRows[i].SL = FileRows[i].Entry
          /\ ~FileRows[i].T1_Hit
          /\ "T1_HIT" \in RulesFor(actions, i)
          /\ TrailSL(tracker[i]) < FileRows[i].SL
          /\ tracker[i].SL = FileRows[i].SL

\* C4: T1_Hit is never reset, and T1_HIT is emitted at most once per position:
\* the count of T1_HIT actions of a row never exceeds one, and a row whose flag is
\* set gets no T1_HIT action.
C4_T1AtMostOnce ==
    [][ /\ \A i \in 1..Len(FileRows) :
              /\ i <= Len(trackerFile'.rows)
              /\ FileRows[i].T1_Hit => trackerFile'.rows[i].T1_Hit
        /\ \A i \in 1..Len(t1Emitted') : t1Emitted'[i] <= 1
        /\ pc = "triggers" =>
              \A i \in 1..Len(tracker) :
                  tracker[i].T1_Hit =>
                      /\ tracker'[i].T1_Hit
                      /\ "T1_HIT" \notin RulesFor(actions', i)
      ]_vars

\* A position whose T1_HIT fired in an earlier run is evaluated again with a fresh
\* price at or above the first target, and no second T1_HIT is emitted.
C4_Witness ==
    /\ pc = "save"
    /\ \E i \in evaluated :
          /\ i <= Len(FileRows)
          /\ FileRows[i].T1_Hit
          /\ quotes[i].kind = "ok"
          /\ tracker[i].Current >= tracker[i].T1
          /\ tracker[i].Status = "ACTIVE"
          /\ t1Emitted[i] = 1

\* C5: in check_triggers, an ACTIVE row whose current price is at or below its
\* stop-loss becomes CLOSED with every other field as it was, and the only
\* action emitted for it is SL_HIT, once.
C5_StopHitCloses ==
    [][ pc = "triggers" =>
            \A i \in ActiveIdx(tracker) :
                tracker[i].Current <= tracker[i].SL =>
                    /\ tracker'[i] = [tracker[i] EXCEPT !.Status = "CLOSED"]
                    /\ RulesFor(actions', i) = {"SL_HIT"}
                    /\ CountRule(actions', i, "SL_HIT") = 1
      ]_vars

\* The example: entry 100.00, stop 100.00 after the breakeven lock of an earlier
\* run, price drops to 99.00: SL_HIT and CLOSED.
C5_Witness ==
    /\ pc = "save"
    /\ \E i \in evaluated :
          /\ i <= Len(FileRows)
          /\ FileRows[i].Status = "ACTIVE"
          /\ tracker[i].Entry = 10000
          /\ tracker[i].SL = 10000
          /\ tracker[i].Current = 9900
          /\ quotes[i].kind = "ok"
          /\ tracker[i].Status = "CLOSED"
          /\ RulesFor(actions, i) = {"SL_HIT"}

\* C6: a closed position is moved: the active ledger trade_tracker.csv holds no
\* CLOSED row, and once a run has ended every position closed so far is in the
\* closed-trade ledger trade_history.csv exactly once.
C6_ClosedAreMoved ==
    /\ \A i \in 1..Len(FileRows) : FileRows[i].Status # "CLOSED"
    /\ pc = "idle" => Len(tradeHistory.rows) = closedCount

\* C7: whenever no run is in progress (so also after a crash during the save),
\* trade_tracker.csv holds a complete ledger: the rows of the last save whose
\* content was written in full.
C7_LedgerNeverPartial ==
    pc = "idle" => FileRows = committed

\* C8: in update_current_prices every ACTIVE row is asked for; a row whose lookup
\* fails keeps its Current, a row whose lookup succeeds gets the fetched close
\* whatever happened to the other rows; and check_triggers then visits every
\* ACTIVE row.
C8_FetchFailureIsLocal ==
    [][ /\ pc = "refresh" =>
              /\ DOMAIN quotes' = ActiveIdx(tracker)
              /\ \A i \in ActiveIdx(tracker) :
                    /\ quotes'[i].kind = "failed" => tracker'[i].Current = tracker[i].Current
                    /\ quotes'[i].kind = "ok" => tracker'[i].Current = quotes'[i].close
        /\ pc = "triggers" => evaluated' = ActiveIdx(tracker)
      ]_vars

\* A run in which the lookup failed for one ACTIVE row, which kept its price, and
\* succeeded for a later ACTIVE row, which got a new price and was evaluated.
C8_Witness ==
    /\ pc = "save"
    /\ \E i, j \in evaluated :
          /\ i < j
          /\ quotes[i].kind = "failed"
          /\ i <= Len(FileRows)
          /\ tracker[i].Current = FileRows[i].Current
          /\ quotes[j].kind = "ok"
          /\ tracker[j].Current = quotes[j].close
          /\ tracker[j].Current # tracker[j].Entry
          /\ RulesFor(actions, j) # {}

\* C9: when check_triggers starts, the refresh of every ACTIVE row has been
\* attempted and P&L and days held of every ACTIVE row are those computed from
\* its current price and today's date; before that point of the run no rule has
\* been evaluated.
C9_RefreshBeforeRules ==
    /\ pc = "triggers" =>
          /\ DOMAIN quotes = ActiveIdx(tracker)
          /\ \A i \in ActiveIdx(tracker) :
                /\ quotes[i].kind = "ok" => tracker[i].Current = quotes[i].close
                /\ tracker[i].PnL_Rs = (tracker[i].Current - tracker[i].Entry) * tracker[i].Quantity
                /\ tracker[i].PnL_Pct =
                      RoundDiv(10000 * (tracker[i].Current - tracker[i].Entry), tracker[i].Entry)
                /\ tracker[i].Days_Held = today - tracker[i].Date
    /\ pc \in {"idle", "refresh", "triggers"} => (evaluated = {} /\ actions = <<>>)

\* check_triggers is about to start on two ACTIVE rows that both got a fresh,
\* changed price.
C9_Witness ==
    /\ pc = "triggers"
    /\ \E i, j \in ActiveIdx(tracker) :
          /\ i # j
          /\ quotes[i].kind = "ok" /\ tracker[i].Current # tracker[i].Entry
          /\ quotes[j].kind = "ok" /\ tracker[j].Current # tracker[j].Entry

\* row carries a mode field equal to mode.
HasMode(row, mode) == "Mode" \in DOMAIN row /\ row.Mode = mode

\* C17: the testing tag reaches every output record: a signal carries the mode
\* of the shortlist row it was made from, and every signal and every ledger
\* position made from a testing-mode shortlist row carries a mode field equal to
\* "testing".
C17_TestingTagPropagates ==
    \A r \in ShortlistRows :
        /\ \A k \in 1..Len(signalFile.rows) :
              signalFile.rows[k].Stock = r.Symbol => HasMode(signalFile.rows[k], r.Mode)
        /\ r.Mode = "testing" =>
              \A i \in 1..Len(FileRows) :
                  FileRows[i].Stock = r.Symbol => HasMode(FileRows[i], "testing")

\* C18: in check_triggers, for an ACTIVE row that is not stopped out: when
\* PnL_Pct >= 3 and SL < Entry, BREAKEVEN is emitted once and the stop is raised
\* to exactly Entry (the first-target rule of the same tick may then raise it
\* further); otherwise BREAKEVEN is not emitted and, unless the first-target rule
\* fires, the stop is left as it was.
C18_BreakevenLock ==
    [][ pc = "triggers" =>
            \A i \in ActiveIdx(tracker) :
                LET row == tracker[i]
                    t1 == row.Current >= row.T1 /\ ~row.T1_Hit
                IN  row.Current > row.SL =>
                        IF row.PnL_Pct >= 300 /\ row.SL < row.Entry
                        THEN /\ CountRule(actions', i, "BREAKEVEN") = 1
                             /\ tracker'[i].SL >= row.Entry
                             /\ ~t1 => tracker'[i] = [row EXCEPT !.SL = row.Entry]
                        ELSE /\ CountRule(actions', i, "BREAKEVEN") = 0
                             /\ ~t1 => tracker'[i] = row
      ]_vars

\* A run raised the stop of a position to its entry price at +3 %, and the next
\* run, at +3 % again, left the stop there and emitted no BREAKEVEN.
C18_Witness ==
    /\ pc = "save"
    /\ \E i \in evaluated :
          /\ i <= Len(FileRows)
          /\ FileRows[i].SL = FileRows[i].Entry
          /\ tracker[i].PnL_Pct = 300
          /\ tracker[i].SL = tracker[i].Entry
          /\ "BREAKEVEN" \notin RulesFor(actions, i)

\* C21: when a run starts, every row of the day's signal file is appended to the
\* loaded ledger as a position with Status ACTIVE, Current = Entry, PnL_Rs = 0,
\* PnL_Pct = 0, Days_Held = 0, T1_Hit false, and Entry, SL, T1, Quantity and
\* Position as in the signal; the loaded rows are kept as they were.
C21_SignalsBecomeActivePositions ==
    [][ (pc = "idle" /\ pc' = "refresh") =>
            LET n == Len(FileRows)
                sigs == IF signalFile.exists THEN signalFile.rows ELSE <<>>
            IN  /\ Len(tracker') = n + Len(sigs)
                /\ \A i \in 1..n : tracker'[i] = FileRows[i]
                /\ \A k \in 1..Len(sigs) :
                      LET row == tracker'[n + k]
                          sig == sigs[k]
                      IN  /\ row.Status = "ACTIVE"
                          /\ row.Stock = sig.Stock
                          /\ row.Current = sig.Entry
                          /\ row.PnL_Rs = 0
                          /\ row.PnL_Pct = 0
                          /\ row.Days_Held = 0
                          /\ row.T1_Hit = FALSE
                          /\ row.Entry = sig.Entry
                          /\ row.SL = sig.SL
                          /\ row.T1 = sig.T1
                          /\ row.Quantity = sig.Quantity
                          /\ row.Position = sig.Position
      ]_vars

\* A run has just ingested a signal onto a ledger that already held a position
\* whose price and stop had moved.
C21_Witness ==
    /\ pc = "refresh"
    /\ Len(FileRows) >= 1
    /\ Len(tracker) = Len(FileRows) + 1
    /\ FileRows[1].Current # FileRows[1].Entry
    /\ tracker[Len(tracker)].Status = "ACTIVE"
    /\ tracker[Len(tracker)].Current = tracker[Len(tracker)].Entry
    /\ tracker[Len(tracker)].Stock = signalFile.rows[1].Stock

\* C25: the ledger holds at most one ACTIVE position per symbol: no two
\* ACTIVE rows of trade_tracker.csv, or of the frame of a run, share their
\* Stock, whatever their dates.
C25_OneActivePerSymbol ==
    \A df \in {tracker, FileRows} :
        \A i, j \in ActiveIdx(df) : i # j => df[i].Stock # df[j].Stock


\* The ledger as the program holds it: the frame of the run in progress, the
\* saved file between runs.
Ledger == IF pc = "idle" THEN FileRows ELSE tracker

Locked(row) == row.SL >= row.Entry

\* C26: BREAKEVEN fires at most once per position over any sequence of ticks:
\* check_triggers emits it at most once for a row and only while SL < Entry,
\* the tick that emits it leaves the stop at or above Entry, and from then
\* on no step of any run brings the stop below Entry again.
C26_BreakevenAtMostOnce ==
    [][ \A i \in 1..Len(Ledger) :
            /\ i <= Len(Ledger')
            /\ Locked(Ledger[i]) => Locked(Ledger'[i])
            /\ pc = "triggers" =>
                  /\ CountRule(actions', i, "BREAKEVEN") <= 1
                  /\ Locked(Ledger[i]) => CountRule(actions', i, "BREAKEVEN") = 0
                  /\ CountRule(actions', i, "BREAKEVEN") = 1 =>
                        /\ Ledger[i].SL < Ledger[i].Entry
                        /\ Locked(Ledger'[i])
      ]_vars

\* A position whose stop was raised to the entry price by an earlier tick
\* reaches its first target in a later tick, at more than +3 %, with a trailing
\* stop below the entry price: the stop stays at the entry price and BREAKEVEN
\* is not emitted again.
C26_Witness ==
    /\ pc = "save"
    /\ \E i \in evaluated :
          /\ i <= Len(FileRows)
          /\ FileRows[i].SL = FileRows[i].Entry
          /\ ~FileRows[i].T1_Hit
          /\ tracker[i].PnL_Pct >= BREAKEVEN_PCT
          /\ TrailSL(tracker[i]) < tracker[i].Entry
          /\ RulesFor(actions, i) = {"T1_HIT"}
          /\ tracker[i].SL = tracker[i].Entry


\* C27: at the end of every tick every position that is still ACTIVE has its
\* stop-loss strictly below its current price, in the frame about to be saved
\* and in the saved ledger (and in the frame of the next run until its prices
\* are refreshed); hence a position whose price is unchanged at the next tick
\* is not closed by SL_HIT.
C27_StopBelowPrice ==
    /\ pc # "triggers" =>
          \A i \in ActiveIdx(Ledger) : Ledger[i].SL < Ledger[i].Current
    /\ pc = "save" =>
          \A i \in evaluated :
              (i <= Len(FileRows) /\ tracker[i].Current = FileRows[i].Current)
                  => "SL_HIT" \notin RulesFor(actions, i)

\* A tick raised the stop of a position (to the entry price or to the trailing
\* stop), and the next tick, at the same price, has left the position ACTIVE.
C27_Witness ==
    /\ pc = "save"
    /\ \E i \in evaluated :
          /\ i <= Len(FileRows)
          /\ FileRows[i].SL >= FileRows[i].Entry
          /\ quotes[i].kind = "ok"
          /\ tracker[i].Current = FileRows[i].Current
          /\ tracker[i].Status = "ACTIVE"
          /\ tracker[i].SL < tracker[i].Current


\* The fields fixed at ingestion.
SameTerms(old, new) ==
    /\ new.Date = old.Date
    /\ new.Stock = old.Stock
    /\ new.Entry = old.Entry
    /\ new.T1 = old.T1
    /\ new.T2 = old.T2
    /\ new.Quantity = old.Quantity
    /\ new.Position = old.Position
    /\ new.ATR = old.ATR

\* The fields a tick leaves alone on a CLOSED position.
SameOutcome(old, new) ==
    /\ new.SL = old.SL
    /\ new.T1_Hit = old.T1_Hit
    /\ new.Status = old.Status
    /\ new.Current = old.Current
    /\ new.Days_Held = old.Days_Held

\* C28: no step of a tracker run changes a position's Date, Stock, Entry, T1,
\* T2, Quantity, Position or ATR (so only Current, PnL_Rs, PnL_Pct, Days_Held,
\* SL, T1_Hit and Status can change), no position is dropped, and for a
\* position that is CLOSED none of SL, T1_Hit, Status, Current and Days_Held
\* changes.
C28_TickFrame ==
    [][ \A i \in 1..Len(Ledger) :
            /\ i <= Len(Ledger')
            /\ DOMAIN Ledger'[i] = DOMAIN Ledger[i]
            /\ SameTerms(Ledger[i], Ledger'[i])
            /\ Ledger[i].Status = "CLOSED" => SameOutcome(Ledger[i], Ledger'[i])
      ]_vars

\* A run on a later day has refreshed and checked a ledger that holds a
\* position closed on an earlier day and a position whose stop it has just
\* raised: the closed position is as it was saved, its Days_Held not brought
\* up to date.
C28_Witness ==
    /\ pc = "save"
    /\ \E i, j \in 1..Len(tracker) :
          /\ i <= Len(FileRows)
          /\ FileRows[i].Status = "CLOSED"
          /\ tracker[i] = FileRows[i]
          /\ today - tracker[i].Date # tracker[i].Days_Held
          /\ j \in evaluated
          /\ tracker[j].Current # tracker[j].Entry
          /\ "BREAKEVEN" \in RulesFor(actions, j)

(***************************************************************************)
(* calculate_position_size on its own: the arguments are drawn from        *)
(* bounded sets and one call is made.                                      *)
(***************************************************************************)
SizingInit ==
    /\ PipelineInit
    /\ \E e \in SizingEntries, pct \in SizingStopPcts, c \in SizingCapitals :
          sizing = [entry |-> e, sl |-> e - (e * pct) \div 100, capital |-> c,
                    done |-> FALSE, qty |-> 0, position |-> 0]
    /\ analysis = NoAnalysis
    /\ screening = NoScreening

SizeCall ==
    /\ ~sizing.done
    /\ LET r == PositionSize(sizing.entry, sizing.sl, sizing.capital)
       IN  sizing' = [sizing EXCEPT !.done = TRUE, !.qty = r.qty, !.position = r.position]
    /\ UNCHANGED <<pipelineVars, analysis, screening>>

SpecSizing == SizingInit /\ [][SizeCall]_vars

\* C10: for entry > stop, the returned notional is quantity * entry and is at most
\* capital * max_position_fraction, and quantity * (entry - stop) is at most
\* capital * risk_per_trade.
C10_SizingWithinCaps ==
    (sizing.done /\ sizing.entry > sizing.sl) =>
        /\ sizing.position = sizing.qty * sizing.entry
        /\ 100 * sizing.position <= sizing.capital * MAX_POSITION_PCT
        /\ 100 * sizing.qty * (sizing.entry - sizing.sl)
              <= sizing.capital * RISK_PER_TRADE_PCT

\* A call where the position cap replaced the risk-sized quantity, with a positive result.
C10_Witness ==
    /\ sizing.done
    /\ sizing.entry > sizing.sl
    /\ sizing.qty > 0
    /\ sizing.qty < SizeNoCap(sizing.entry, sizing.sl, sizing.capital).qty


(***************************************************************************)
(* 3_analyzer.py main() on its own: the shortlist file and the ledger it   *)
(* finds are drawn from bounded sets and one run is made.                  *)
(***************************************************************************)
MaxAnalyzed == 3      \* rows of a shortlist file
MaxActive == 3        \* ACTIVE rows of the ledger the analyzer finds

AnalyzerShortlists ==
    { df \in UNION { [1..n -> AnalyzerRows] : n \in 0..MaxAnalyzed } :
        \A i, j \in 1..Len(df) :
            i # j => (df[i].Symbol # df[j].Symbol /\ df[i].Mode = df[j].Mode) }

\* A ledger with k ACTIVE positions and one CLOSED one.
LedgerWith(k) ==
    LET sig == Apply("SignalOf", <<ShortlistRow("AAA", 10000, 9500, 400, "standard"), 0>>)
    IN  [exists |-> TRUE,
         rows |-> <<[NewTrade(sig, 0) EXCEPT !.Status = "CLOSED"]>>
                    \o [i \in 1..k |-> NewTrade(sig, 0)]]

AnalyzerLedgers == {NoFile} \cup { LedgerWith(k) : k \in 0..MaxActive }

\* main() of 3_analyzer.py on shortlist df and ledger file: the free slots, the
\* signals of generate_signals, the selected signals, and whether the day's
\* signal file was written; a return before a step leaves its result empty.
AnalyzerRun(df, file, day) ==
    LET available == MAX_TRADES - check_existing_positions(file)
        signals == generate_signals(df, day)
    IN  IF df = <<>>
        THEN [available |-> 0, signals |-> <<>>, final |-> <<>>, wrote |-> FALSE]
        ELSE IF available <= 0
        THEN [available |-> available, signals |-> <<>>, final |-> <<>>, wrote |-> FALSE]
        ELSE IF signals = <<>>
        THEN [available |-> available, signals |-> <<>>, final |-> <<>>, wrote |-> FALSE]
        ELSE [available |-> available, signals |-> signals,
              final |-> select_top_trades(signals, available), wrote |-> TRUE]

AnalyzerInit ==
    /\ today = 0
    /\ dayCount = 0
    /\ runs = 0
    /\ signalFile = NoFile
    /\ trackerFile \in AnalyzerLedgers
    /\ tradeHistory = NoFile
    /\ committed = trackerFile.rows
    /\ pc = "idle"
    /\ tracker = <<>>
    /\ actions = <<>>
    /\ quotes = <<>>
    /\ evaluated = {}
    /\ t1Emitted = <<>>
    /\ closedCount = 0
    /\ sizing = NoSizing
    /\ screening = NoScreening
    /\ \E df \in AnalyzerShortlists : analysis = [NoAnalysis EXCEPT !.df = df]

AnalyzeCall ==
    /\ ~analysis.done
    /\ LET r == AnalyzerRun(analysis.df, trackerFile, today)
       IN  /\ analysis' = [df |-> analysis.df, done |-> TRUE, available |-> r.available,
                           signals |-> r.signals, final |-> r.final, wrote |-> r.wrote]
           /\ signalFile' = IF r.wrote THEN [exists |-> TRUE, rows |-> r.final]
                                       ELSE signalFile
    /\ UNCHANGED <<today, dayCount, runs, trackerFile, tradeHistory, committed, pc, tracker,
                   actions, quotes, evaluated, t1Emitted, closedCount, sizing, screening>>

SpecAnalyzer == AnalyzerInit /\ [][AnalyzeCall]_vars

\* The shortlist rows of df that generate_signals sizes to a positive quantity
\* and then skips because the target is below the break-even price.
SkippedTooLow(df) ==
    { i \in 1..Len(df) :
        LET sized == PositionSize(df[i].Entry, df[i].SL, CAPITAL)
        IN  /\ sized.qty > 0
            /\ 50 * sized.qty * df[i].Target
                  < 51 * sized.position + 50 * calculate_charges(sized.position) }

\* C11: every signal of generate_signals has its first target at or above the
\* break-even price entry * (1 + charges / position + 0.02), and a shortlist row
\* whose target is below that price gives no signal.
C11_TargetClearsBreakeven ==
    analysis.done =>
        /\ \A k \in 1..Len(analysis.signals) :
              LET s == analysis.signals[k]
              IN  /\ s.Position = s.Quantity * s.Entry
                  /\ 50 * s.Quantity * s.T1 >= 51 * s.Position + 50 * s.Charges
        /\ \A i \in SkippedTooLow(analysis.df) :
              \A k \in 1..Len(analysis.signals) :
                  analysis.signals[k].Stock # analysis.df[i].Symbol

\* A run whose shortlist held a row with a target below break-even next to rows
\* that became signals.
C11_Witness ==
    /\ analysis.done
    /\ SkippedTooLow(analysis.df) # {}
    /\ Len(analysis.signals) >= 2
    /\ Len(analysis.signals) = Len(analysis.df) - Cardinality(SkippedTooLow(analysis.df))

\* Free slots as main() counts them: max_concurrent_trades less the ACTIVE rows
\* of the ledger.
FreeSlots == MAX_TRADES - Cardinality({i \in 1..Len(FileRows) : FileRows[i].Status = "ACTIVE"})

\* C12: the run outputs exactly min(accepted signals, free slots) signals; with
\* no free slot it outputs nothing and writes no signal file.
C12_OutputSizeIsMin ==
    analysis.done =>
        LET accepted == generate_signals(analysis.df, today)
        IN  IF FreeSlots <= 0
            THEN /\ analysis.final = <<>>
                 /\ ~analysis.wrote
                 /\ signalFile = NoFile
            ELSE /\ Len(analysis.final) = Min(Len(accepted), FreeSlots)
                 /\ analysis.wrote => signalFile = [exists |-> TRUE, rows |-> analysis.final]
                 /\ ~analysis.wrote => (accepted = <<>> /\ signalFile = NoFile)

\* A run with three accepted signals and one free slot, which outputs one signal.
C12_Witness ==
    /\ analysis.done
    /\ FreeSlots = 1
    /\ Len(analysis.signals) = 3
    /\ Len(analysis.final) = 1
    /\ signalFile.rows = analysis.final

\* The signals of `signals` that are not among `final` (one signal per symbol).
Excluded(signals, final) ==
    { k \in 1..Len(signals) : \A m \in 1..Len(final) : final[m].Stock # signals[k].Stock }

\* C13: when the allocator truncates, every selected signal has RR at least that
\* of every excluded one and, at equal RR, net expectancy percent at least that of
\* every excluded one; within capacity the signals pass through unchanged, in
\* their original order.
C13_SelectionIsTopRanked ==
    (analysis.done /\ analysis.wrote) =>
        IF Len(analysis.signals) <= analysis.available
        THEN analysis.final = analysis.signals
        ELSE /\ Len(analysis.final) = analysis.available
             /\ \A m \in 1..Len(analysis.final) :
                   \E k \in 1..Len(analysis.signals) : analysis.signals[k] = analysis.final[m]
             /\ \A m \in 1..Len(analysis.final) :
                   \A k \in Excluded(analysis.signals, analysis.final) :
                       /\ analysis.final[m].RR >= analysis.signals[k].RR
                       /\ analysis.final[m].RR = analysis.signals[k].RR =>
                             analysis.final[m].Net_Expectancy_Pct
                                 >= analysis.signals[k].Net_Expectancy_Pct

\* A truncating run in which the first accepted signal is excluded because its
\* net expectancy is below that of the two selected after it.
C13_Witness ==
    /\ analysis.done
    /\ analysis.wrote
    /\ Len(analysis.signals) = 3
    /\ Len(analysis.final) = 2
    /\ 1 \in Excluded(analysis.signals, analysis.final)
    /\ \A m \in 1..2 :
          analysis.final[m].Net_Expectancy_Pct > analysis.signals[1].Net_Expectancy_Pct


(***************************************************************************)
(* Screener (2_screener.py).  Prices are in paise, RSI, ADX, ratios and    *)
(* percentages in hundredths.  SL = Support * 0.995 is not a whole number  *)
(* of paise, so the layer-3 columns are kept in units of 1/200 paise       *)
(* (Risk200 = 200 * (Entry - SL)) until main() rounds them; the RR column  *)
(* is the float64 number the code computes.                                *)
(***************************************************************************)
Modes == {"standard", "relaxed", "testing"}

\* load_filters(mode).  The standard profile is read from config/filters.json;
\* the values here are those of a configuration stricter than `relaxed`.
load_filters(mode) ==
    IF mode = "testing"
    THEN [mode |-> "testing",
          layer1 |-> [min_volume |-> 100000, min_price |-> 5000, max_price |-> 1000000],
          layer2 |-> [rsi_min |-> 4000, rsi_max |-> 8000, adx_min |-> 1000, volume_surge |-> 80],
          layer3 |-> [max_extension |-> 2500, min_rr |-> 120]]
    ELSE IF mode = "relaxed"
    THEN [mode |-> "relaxed",
          layer1 |-> [min_volume |-> 200000, min_price |-> 10000, max_price |-> 500000],
          layer2 |-> [rsi_min |-> 4500, rsi_max |-> 7500, adx_min |-> 1500, volume_surge |-> 110],
          layer3 |-> [max_extension |-> 1500, min_rr |-> 180]]
    ELSE [mode |-> "standard",
          layer1 |-> [min_volume |-> 500000, min_price |-> 10000, max_price |-> 500000],
          layer2 |-> [rsi_min |-> 5000, rsi_max |-> 7000, adx_min |-> 2000, volume_surge |-> 120],
          layer3 |-> [max_extension |-> 1000, min_rr |-> 200]]

\* Variant without the price band.
Layer1VolumeOnly(df, F) ==
    LET Keep(r) == r.Vol_20D_Avg >= F.layer1.min_volume
    IN  SelectSeq(df, Keep)

layer1_filter(df, F) ==
    LET Keep(r) == /\ r.Vol_20D_Avg >= F.layer1.min_volume
                   /\ r.Close >= F.layer1.min_price
                   /\ r.Close <= F.layer1.max_price
    IN  SelectSeq(df, Keep)

\* The moving-average rule of the mode.
TrendAligned(r, mode) ==
    IF mode = "testing" THEN r.Close > r.MA20
    ELSE IF mode = "relaxed" THEN r.Close > r.MA50 /\ r.MA50 > r.MA200
    ELSE /\ r.Close > r.MA50
         /\ r.Close > r.MA200
         /\ r.MA20 > r.MA50
         /\ r.MA50 > r.MA200

layer2_filter(df, F) ==
    LET Keep(r) == /\ TrendAligned(r, F.mode)
                   /\ r.RSI >= F.layer2.rsi_min
                   /\ r.RSI <= F.layer2.rsi_max
                   /\ r.ADX >= F.layer2.adx_min
                   /\ 100 * r.Vol_5D_Avg >= F.layer2.volume_surge * r.Vol_20D_Avg
    IN  SelectSeq(df, Keep)

\* 200 * (Entry - SL) with Entry = Close and SL = Support * 0.995.
Risk200(r) == 200 * r.Close - 199 * r.Support

\* The RR column of the snapshot rows.
RRColumn ==
    [cs \in {<<r.Close, r.Support>> : r \in SnapshotRows} |-> Apply("FloatRR", cs)]

RRof(r) == RRColumn[<<r.Close, r.Support>>]

\* Variant that gives every mode the ceiling of the testing mode.
RiskCeilingOfTesting(mode) == 1200

\* The Risk_Pct ceiling of the mode, in percent times 100.
RiskCeiling(mode) == IF mode = "testing" THEN 1200 ELSE 500

\* df[df["RR"] >= min_rr]: a comparison with NaN is false.
PassesRR(r, F) == Apply("RRAtLeast", <<RRof(r), F.layer3.min_rr>>)

\* The columns layer3_filter adds to a row it keeps.
Layer3Row(r) ==
    r @@ [Entry |-> r.Close,
          SL200 |-> 199 * r.Support,
          Risk_Per_Share200 |-> Risk200(r),
          Target200 |-> 200 * r.Close + 2 * Risk200(r),
          RR |-> RRof(r)]

layer3_filter(df, F) ==
    LET Keep(r) == /\ r.Close > r.High_20D
                   /\ 10000 * (r.Close - r.MA20) <= F.layer3.max_extension * r.MA20
                   /\ PassesRR(r, F)
                   /\ 100 * Risk200(r) <= RiskCeiling(F.mode) * 2 * r.Close
        kept == SelectSeq(df, Keep)
    IN  [i \in 1..Len(kept) |-> Layer3Row(kept[i])]

\* shortlist = df[output_cols].round(2); shortlist["Mode"] = args.mode
ScreenedRow(r, mode) ==
    [Symbol |-> r.Symbol, Entry |-> r.Entry,
     SL |-> RoundDiv(r.SL200, 200),
     Target |-> RoundDiv(r.Target200, 200),
     RR |-> IF r.RR.nan THEN 0 ELSE Round2(r.RR.x),
     Risk_Pct |-> RoundDiv(50 * r.Risk_Per_Share200, r.Close),
     ATR |-> r.ATR, Mode |-> mode]

\* The snapshot files the screener is run on.
MaxSnapshot == 2      \* rows of the snapshot file

Snapshots ==
    { df \in UNION { [1..n -> SnapshotRows] : n \in 0..MaxSnapshot } :
        \A i, j \in 1..Len(df) : i # j => df[i].Symbol # df[j].Symbol }

ScreenerInit ==
    /\ PipelineInit
    /\ sizing = NoSizing
    /\ analysis = NoAnalysis
    /\ \E mode \in Modes, df \in Snapshots :
          screening = [NoScreening EXCEPT !.mode = mode, !.stage = "start", !.input = df]

ScreenerUnchanged == UNCHANGED <<pipelineVars, sizing, analysis>>

\* df = load_latest_data(); if df.empty: return
ScreenLoad ==
    /\ screening.stage = "start"
    /\ screening' = [screening EXCEPT
                        !.stage = IF screening.input = <<>> THEN "returned" ELSE "loaded"]
    /\ ScreenerUnchanged

\* df = layer1_filter(df, FILTERS); if df.empty: return
ScreenLayer1 ==
    /\ screening.stage = "loaded"
    /\ LET df == layer1_filter(screening.input, load_filters(screening.mode))
       IN  screening' = [screening EXCEPT
                            !.l1 = df, !.stage = IF df = <<>> THEN "returned" ELSE "layer1"]
    /\ ScreenerUnchanged

ScreenLayer2 ==
    /\ screening.stage = "layer1"
    /\ LET df == layer2_filter(screening.l1, load_filters(screening.mode))
       IN  screening' = [screening EXCEPT
                            !.l2 = df, !.stage = IF df = <<>> THEN "returned" ELSE "layer2"]
    /\ ScreenerUnchanged

\* Variant without the return on an empty frame.
ScreenLayer3NoReturn ==
    /\ screening.stage = "layer2"
    /\ screening' = [screening EXCEPT
                        !.l3 = layer3_filter(screening.l2, load_filters(screening.mode)),
                        !.stage = "layer3"]
    /\ ScreenerUnchanged

ScreenLayer3 ==
    /\ screening.stage = "layer2"
    /\ LET df == layer3_filter(screening.l2, load_filters(screening.mode))
       IN  screening' = [screening EXCEPT
                            !.l3 = df, !.stage = IF df = <<>> THEN "returned" ELSE "layer3"]
    /\ ScreenerUnchanged

\* The shortlist file is written.
ScreenWrite ==
    /\ screening.stage = "layer3"
    /\ screening' = [screening EXCEPT
                        !.shortlist = [i \in 1..Len(screening.l3) |->
                                          ScreenedRow(screening.l3[i], screening.mode)],
                        !.wrote = TRUE,
                        !.stage = "written"]
    /\ ScreenerUnchanged

NextScreener ==
    \/ ScreenLoad
    \/ ScreenLayer1
    \/ ScreenLayer2
    \/ ScreenLayer3
    \/ ScreenWrite

SpecScreener == ScreenerInit /\ [][NextScreener]_vars

\* C14: every row layer3_filter returns has Entry = Close above the lagged 20-day
\* high, RR at least the profile's min_rr, and Risk_Pct at most 12 in testing
\* mode and at most 5 in standard and relaxed mode.
C14_Layer3RowsQualify ==
    \A i \in 1..Len(screening.l3) :
        LET r == screening.l3[i]
        IN  /\ r.Entry = r.Close
            /\ r.Entry > r.High_20D
            /\ ~r.RR.nan
            /\ FCmp(r.RR.x, FromDecimal(load_filters(screening.mode).layer3.min_rr, 100)) >= 0
            /\ 100 * r.Risk_Per_Share200
                  <= (IF screening.mode = "testing" THEN 12 ELSE 5) * 200 * r.Entry

\* Layer 3 of a relaxed run kept one of two rows; the other had passed layers 1
\* and 2 with a risk above 5 percent.
C14_Witness ==
    /\ screening.stage = "layer3"
    /\ screening.mode = "relaxed"
    /\ Len(screening.l2) = 2
    /\ Len(screening.l3) = 1
    /\ \E i \in 1..2 :
          /\ screening.l2[i].Close > screening.l2[i].High_20D
          /\ 100 * Risk200(screening.l2[i]) > 5 * 200 * screening.l2[i].Close

\* C15: no row with Entry - SL <= 0 is returned by layer3_filter.
C15_NoNonPositiveRisk ==
    \A i \in 1..Len(screening.l3) : screening.l3[i].Entry * 200 - screening.l3[i].SL200 > 0

Symbols(df) == { df[i].Symbol : i \in 1..Len(df) }

\* out holds only symbols of in, each once.
Narrows(out, in) ==
    /\ Symbols(out) \subseteq Symbols(in)
    /\ Cardinality(Symbols(out)) = Len(out)
    /\ Len(out) <= Len(in)

\* C16: each layer's output holds only symbols of its input, none twice, so the
\* shortlist holds only symbols of the snapshot; and every layer-1 survivor has
\* Vol_20D_Avg >= min_volume and min_price <= Close <= max_price.
C16_StagesOnlyNarrow ==
    /\ Narrows(screening.l1, screening.input)
    /\ Narrows(screening.l2, screening.l1)
    /\ Narrows(screening.l3, screening.l2)
    /\ Narrows(screening.shortlist, screening.l3)
    /\ Narrows(screening.shortlist, screening.input)
    /\ \A i \in 1..Len(screening.l1) :
          LET r == screening.l1[i]
              F == load_filters(screening.mode)
          IN  /\ r.Vol_20D_Avg >= F.layer1.min_volume
              /\ r.Close >= F.layer1.min_price
              /\ r.Close <= F.layer1.max_price
              /\ \E k \in 1..Len(screening.input) : screening.input[k] = r

\* A run that wrote a shortlist of one row from a snapshot of two, the
\* other row removed by layer 1 for its price.
C16_Witness ==
    /\ screening.stage = "written"
    /\ Len(screening.input) = 2
    /\ Len(screening.l1) = 1
    /\ Len(screening.shortlist) = 1
    /\ \E k \in 1..2 :
          /\ screening.input[k].Vol_20D_Avg >= load_filters(screening.mode).layer1.min_volume
          /\ screening.input[k].Close > load_filters(screening.mode).layer1.max_price

\* The quantity the sizing rule gives for entry and stop with the account's
\* capital (100000.00), 1 % risk and 10 % maximum position, in whole shares.
RuleQuantity(entry, sl) ==
    LET raw == 100000 \div (entry - sl)
    IN  IF entry - sl <= 0 THEN 0
        ELSE IF raw * entry > 1000000 THEN 1000000 \div entry
        ELSE raw

\* C23: the quantity of every signal is floor(capital * risk / (entry - stop)),
\* replaced by floor(capital * max_position / entry) only when its notional
\* exceeds capital * max_position; a row whose quantity is 0, as it is when
\* entry - stop <= 0, gives no signal.
C23_SizingRule ==
    analysis.done =>
        /\ \A k \in 1..Len(analysis.signals) :
              LET sig == analysis.signals[k]
              IN  /\ sig.Quantity = RuleQuantity(sig.Entry, sig.SL)
                  /\ sig.Quantity > 0
                  /\ sig.Position = sig.Quantity * sig.Entry
        /\ \A i \in 1..Len(analysis.df) :
              RuleQuantity(analysis.df[i].Entry, analysis.df[i].SL) = 0 =>
                  \A k \in 1..Len(analysis.signals) :
                      analysis.signals[k].Stock # analysis.df[i].Symbol

\* The net profit of a signal at its first target: quantity * (target - entry)
\* less the round-trip charges, in paise.
NetProfit(sig) == sig.Quantity * (sig.T1 - sig.Entry) - sig.Charges

\* C30: every signal of generate_signals has a net expectancy, its net profit
\* at the first target over its position value, of at least 2 % before it is
\* rounded, and so a net profit above zero.
C30_NetExpectancyAboveMargin ==
    analysis.done =>
        \A k \in 1..Len(analysis.signals) :
            LET sig == analysis.signals[k]
            IN  /\ sig.Position > 0
                /\ 50 * NetProfit(sig) >= sig.Position
                /\ NetProfit(sig) > 0
                /\ sig.Net_Expectancy_Pct >= 200

\* A run that made a signal of a row whose net expectancy is exactly 2 % and
\* skipped a row whose net expectancy is above zero and below 2 %.
C30_Witness ==
    /\ analysis.done
    /\ \E k \in 1..Len(analysis.signals) :
          50 * NetProfit(analysis.signals[k]) = analysis.signals[k].Position
    /\ \E i \in 1..Len(analysis.df) :
          LET row == analysis.df[i]
              sized == PositionSize(row.Entry, row.SL, CAPITAL)
              net == sized.qty * (row.Target - row.Entry) - calculate_charges(sized.position)
          IN  /\ net > 0
              /\ 50 * net < sized.position
              /\ \A k \in 1..Len(analysis.signals) :
                    analysis.signals[k].Stock # row.Symbol

\* The rows of layer 2 that reach the RR computation of layer 3: those the
\* breakout and extension filters keep.
ReachesRR(r, F) ==
    /\ r.Close > r.High_20D
    /\ 10000 * (r.Close - r.MA20) <= F.layer3.max_extension * r.MA20

\* C29: every row layer3_filter computes a reward:risk for, with Entry - SL
\* different from zero, gets RR exactly 2.
C29_RewardRiskIsTwo ==
    (screening.stage \in {"layer3", "written"}
        \/ (screening.stage = "returned" /\ screening.l2 # <<>>)) =>
        \A i \in 1..Len(screening.l2) :
            LET r == screening.l2[i]
            IN  (ReachesRR(r, load_filters(screening.mode)) /\ Risk200(r) # 0)
                    => (~RRof(r).nan /\ RRof(r).x = FromInt(2))

(***************************************************************************)
(* check_triggers on its own: main() has loaded and refreshed a ledger of  *)
(* one position, drawn from bounded sets, and check_triggers runs on it.   *)
(***************************************************************************)
TriggerStops == {9500, 10000, 10300}

TriggerTargets == {10600, 11000}

TriggerATRs == {333, 400, 800}

TriggerPrices == {9500, 10000, 10299, 10300, 10600, 10900, 11000}

TriggerDays == {0, 24, 25, 30}

\* A position of 100 shares entered at 100.00 on day 0, as calculate_pnl and
\* update_days_held leave it on day `days` at price `current`.
PositionRow(sl, t1, atr, current, t1_hit, days) ==
    LET row == [Date |-> 0, Stock |-> "AAA", Entry |-> 10000, SL |-> sl, T1 |-> t1,
                T2 |-> RoundDiv(2 * t1 + 3 * atr, 2), Quantity |-> 100,
                Position |-> 1000000, Current |-> current, PnL_Rs |-> 0, PnL_Pct |-> 0,
                Days_Held |-> 0, Status |-> "ACTIVE", ATR |-> atr, T1_Hit |-> t1_hit]
    IN  update_days_held(calculate_pnl(<<row>>), days)

\* A stop above the entry price comes only from the first-target rule, and that
\* rule leaves the stop at or above the entry price.
TriggerStates ==
    { st \in [sl : TriggerStops, t1 : TriggerTargets, atr : TriggerATRs,
              current : TriggerPrices, t1_hit : BOOLEAN, days : TriggerDays] :
        (st.sl > 10000 => st.t1_hit) /\ (st.t1_hit => st.sl >= 10000) }

TriggerFrames ==
    { PositionRow(st.sl, st.t1, st.atr, st.current, st.t1_hit, st.days) : st \in TriggerStates }

TriggersInit ==
    /\ today \in TriggerDays
    /\ dayCount = 0
    /\ runs = 1
    /\ signalFile = NoFile
    /\ trackerFile = NoFile
    /\ tradeHistory = NoFile
    /\ committed = <<>>
    /\ pc = "triggers"
    /\ tracker \in {df \in TriggerFrames : df[1].Days_Held = today}
    /\ actions = <<>>
    /\ quotes = [i \in ActiveIdx(tracker) |-> [kind |-> "ok", close |-> tracker[i].Current]]
    /\ evaluated = {}
    /\ t1Emitted = <<>>
    /\ closedCount = 0
    /\ sizing = NoSizing
    /\ analysis = NoAnalysis
    /\ screening = NoScreening

SpecTriggers == TriggersInit /\ [][TrackerTriggers]_vars

\* C19: when the first-target rule fires (Current >= T1, T1_Hit false, not stopped
\* out), the stop after the tick is the larger of the stop left by the breakeven
\* rule of the same tick and round(Current - 1.5 * ATR, 2); it is never below the
\* stop before the tick, T1_Hit is set and T1_HIT is emitted.
C19_TrailingStopIsMax ==
    [][ pc = "triggers" =>
            \A i \in ActiveIdx(tracker) :
                LET row == tracker[i]
                    after_be == IF row.PnL_Pct >= 300 /\ row.SL < row.Entry
                                THEN row.Entry ELSE row.SL
                    trail == RoundDiv(2 * row.Current - 3 * row.ATR, 2)
                IN  (row.Current > row.SL /\ row.Current >= row.T1 /\ ~row.T1_Hit) =>
                        /\ tracker'[i].SL = (IF after_be >= trail THEN after_be ELSE trail)
                        /\ tracker'[i].SL >= row.SL
                        /\ tracker'[i].T1_Hit
                        /\ CountRule(actions', i, "T1_HIT") = 1
      ]_vars

\* The example: entry 100.00, stop below entry, ATR 4.00, T1 106.00, price 109.00:
\* BREAKEVEN and T1_HIT fire and the tick ends with stop 103.00 and T1_Hit true.
C19_Witness ==
    /\ pc = "save"
    /\ Len(tracker) = 1
    /\ tracker[1].Entry = 10000
    /\ tracker[1].ATR = 400
    /\ tracker[1].T1 = 10600
    /\ tracker[1].Current = 10900
    /\ RulesFor(actions, 1) = {"BREAKEVEN", "T1_HIT"}
    /\ tracker[1].SL = 10300
    /\ tracker[1].T1_Hit

\* C20: for an ACTIVE row that is not stopped out, MONTH_END is emitted exactly
\* when Days_Held >= 25, the row stays ACTIVE whatever its age, and when no other
\* rule fires the row is left exactly as it was.
C20_MonthEndIsAdvisory ==
    [][ pc = "triggers" =>
            \A i \in ActiveIdx(tracker) :
                LET row == tracker[i]
                    be == row.PnL_Pct >= 300 /\ row.SL < row.Entry
                    t1 == row.Current >= row.T1 /\ ~row.T1_Hit
                IN  row.Current > row.SL =>
                        /\ CountRule(actions', i, "MONTH_END")
                              = (IF row.Days_Held >= 25 THEN 1 ELSE 0)
                        /\ tracker'[i].Status = "ACTIVE"
                        /\ (~be /\ ~t1) => tracker'[i] = row
      ]_vars

\* A position held 30 days, below its first target and above its stop, has been
\* evaluated: MONTH_END is the only action and the position is still ACTIVE.
C20_Witness ==
    /\ pc = "save"
    /\ Len(tracker) = 1
    /\ tracker[1].Days_Held = 30
    /\ tracker[1].Current > tracker[1].SL
    /\ tracker[1].Current < tracker[1].T1
    /\ RulesFor(actions, 1) = {"MONTH_END"}
    /\ tracker[1].Status = "ACTIVE"
    /\ ~tracker[1].T1_Hit


(***************************************************************************)
(* One day of the pipeline in its scheduled order: the screener runs on    *)
(* the day's snapshot, then the analyzer on the shortlist file the         *)
(* screener left (none when it returned early), then the tracker.          *)
(***************************************************************************)
\* What load_shortlist returns: the rows of today's shortlist file, or the empty
\* frame when the screener wrote none.
load_shortlist == IF screening.wrote THEN screening.shortlist ELSE <<>>

DayAnalyze ==
    /\ screening.stage \in {"returned", "written"}
    /\ ~analysis.done
    /\ pc = "idle"
    /\ LET r == AnalyzerRun(load_shortlist, trackerFile, today)
       IN  /\ analysis' = [df |-> load_shortlist, done |-> TRUE, available |-> r.available,
                           signals |-> r.signals, final |-> r.final, wrote |-> r.wrote]
           /\ signalFile' = IF r.wrote THEN [exists |-> TRUE, rows |-> r.final]
                                       ELSE signalFile
    /\ UNCHANGED <<today, dayCount, runs, trackerFile, tradeHistory, committed, pc, tracker,
                   actions, quotes, evaluated, t1Emitted, closedCount, sizing, screening>>

DayTrackerStart == analysis.done /\ TrackerStart

NextDayRun ==
    \/ ScreenLoad
    \/ ScreenLayer1
    \/ ScreenLayer2
    \/ ScreenLayer3
    \/ ScreenWrite
    \/ DayAnalyze
    \/ DayTrackerStart
    \/ TrackerRefresh
    \/ TrackerTriggers
    \/ TrackerSave

SpecDay == ScreenerInit /\ [][NextDayRun]_vars

\* The screener has come to an empty frame: no snapshot, or nothing left after a
\* layer it has run.
NoCandidates ==
    \/ screening.stage = "returned"
    \/ screening.stage = "loaded" /\ screening.input = <<>>
    \/ screening.stage \in {"layer1", "layer2", "layer3", "written"} /\ screening.l1 = <<>>
    \/ screening.stage \in {"layer2", "layer3", "written"} /\ screening.l2 = <<>>
    \/ screening.stage \in {"layer3", "written"} /\ screening.l3 = <<>>

\* C22: when a screening stage comes up empty the screener returns there and
\* writes no shortlist; the analyzer run of that day then produces no signal and
\* writes no signal file, and the tracker adds no position to the ledger.
C22_EmptyStageEndsTheDay ==
    NoCandidates =>
        /\ screening.stage = "returned"
        /\ ~screening.wrote
        /\ screening.shortlist = <<>>
        /\ analysis.done =>
              /\ analysis.df = <<>>
              /\ analysis.signals = <<>>
              /\ ~analysis.wrote
        /\ signalFile = NoFile
        /\ tracker = <<>>
        /\ FileRows = <<>>

\* A day on which layer 3 left nothing of a snapshot that had passed layers 1
\* and 2: the analyzer ran and wrote nothing, and the tracker ran to its end and
\* saved an empty ledger.
C22_Witness ==
    /\ screening.stage = "returned"
    /\ screening.l2 # <<>>
    /\ screening.l3 = <<>>
    /\ analysis.done
    /\ ~analysis.wrote
    /\ runs >= 1
    /\ pc = "idle"
    /\ trackerFile = [exists |-> TRUE, rows |-> <<>>]


(***************************************************************************)
(* One trading day on which 5_tracker.py is run several times: the          *)
(* analyzer and the tracker as above, without the change of date.          *)
(***************************************************************************)
MaxReruns == 3        \* tracker runs on the day
MaxLedger == 3        \* rows of trade_tracker.csv

RerunStart == StartRun(MaxReruns, MaxLedger)

NextRerun ==
    \/ AnalyzerMain
    \/ RerunStart
    \/ TrackerRefresh
    \/ TrackerTriggers
    \/ TrackerSave

SpecRerun == Init /\ [][NextRerun]_vars

\* C24: after any sequence of analyzer runs and tracker runs, repeated runs
\* of the tracker on one day included, the ledger never holds more ACTIVE
\* positions than max_concurrent_trades.
C24_ActiveWithinLimit ==
    Cardinality(ActiveIdx(FileRows)) <= MAX_TRADES

=============================================================================
